---- MODULE Spec2Model ----
(***************************************************************************)
(* Heptagon physics: circular bodies inside a rotating regular heptagon.   *)
(* Model of HeptagonSimulation (src/unnamed/part_000).                     *)
(*                                                                         *)
(* JavaScript numbers are modelled as fixed-point integers: the integer k  *)
(* stands for the number k / SCALE, and every multiplication, division and *)
(* square root rounds its result to the nearest representable value, as    *)
(* the floating-point operations of the source do at their own precision.  *)
(***************************************************************************)
EXTENDS Integers, Sequences, FiniteSets

VARIABLES
    pc,             \* position of the program: "loop", "substep", "draw"; "ready"/"done" for one resolution
    centerX,        \* const centerX  (line 65)
    centerY,        \* const centerY  (line 66)
    heptagonRadius, \* const heptagonRadius (line 67)
    rotationAngle,  \* let rotationAngle (line 69)
    balls,          \* const balls: Ball[] (line 72)
    vertices,       \* const vertices of the running updatePhysics call (line 90)
    step,           \* sub-step loop index (line 102)
    bi,             \* index of the ball the forEach callback visits next (line 103)
    frames,         \* number of updatePhysics calls started
    drawn,          \* the polygon draw() last stroked (lines 281-289)
    moved,          \* indices of the balls already integrated and wall-resolved in this sub-step
    checks,         \* pair checks of the last forEach callback: <<ball, other, moved at that time>>
    pre,            \* the balls before the last single resolution
    sel             \* the operands of the single resolution: [a, b] ball indices or [a, e] ball and edge

vars == <<pc, centerX, centerY, heptagonRadius, rotationAngle, balls, vertices,
          step, bi, frames, drawn, moved, checks, pre, sel>>

----------------------------------------------------------------------------
(* Numbers *)

SCALE == 100            \* k stands for k / SCALE
TRIG == 10000           \* cosines and sines are kept to 1 / TRIG

Abs(a) == IF a < 0 THEN -a ELSE a

\* n / d rounded to the nearest integer, halves away from zero
RoundDiv(n, d) == IF n >= 0 THEN (2 * n + d) \div (2 * d)
                            ELSE -((2 * (-n) + d) \div (2 * d))

Mul(a, b) == RoundDiv(a * b, SCALE)
Div(a, b) == RoundDiv(a * SCALE, b)

RECURSIVE SqrtSearch(_, _, _)
\* the largest r in lo..hi with r * r <= n
SqrtSearch(n, lo, hi) ==
    IF lo >= hi THEN lo
    ELSE LET mid == (lo + hi + 1) \div 2
         IN  IF mid * mid <= n THEN SqrtSearch(n, mid, hi)
                               ELSE SqrtSearch(n, lo, mid - 1)

\* Math.sqrt of n / SCALE^2, in units of 1 / SCALE, rounded to nearest
Sqrt(n) == LET r == SqrtSearch(n, 0, 46340)
           IN  IF n - r * r > r THEN r + 1 ELSE r

----------------------------------------------------------------------------
(* Constants (lines 23-29) *)

NUM_BALLS == 3          \* 20 in the source
GRAVITY == 15           \* 0.15
FRICTION == 99          \* 0.99
WALL_BOUNCE == 70       \* 0.7
ROTATION_SPEED == 1     \* 0.01
HEPTAGON_SIDES == 7
SUB_STEPS == 8
BALL_RESTITUTION == 80  \* const restitution = 0.8 (line 259)

----------------------------------------------------------------------------
(* Helper functions (lines 38-46) *)

Vec(a, b) == [x |-> a, y |-> b]

dot(v1, v2) == Mul(v1.x, v2.x) + Mul(v1.y, v2.y)
sub(v1, v2) == Vec(v1.x - v2.x, v1.y - v2.y)
add(v1, v2) == Vec(v1.x + v2.x, v1.y + v2.y)
mult(v, s) == Vec(Mul(v.x, s), Mul(v.y, s))
length(v) == Sqrt(v.x * v.x + v.y * v.y)
normalize(v) ==
    LET len == length(v)
    IN  IF len = 0 THEN Vec(0, 0) ELSE Vec(Div(v.x, len), Div(v.y, len))

----------------------------------------------------------------------------
(* Trigonometry *)

\* cos and sin of i * 2 * pi / 7, in units of 1 / TRIG
BaseCos == <<10000, 6235, -2225, -9010, -9010, -2225, 6235>>
BaseSin == <<0, 7818, 9749, 4339, -4339, -9749, -7818>>

TMul(a, b) == RoundDiv(a * b, TRIG)

\* cos and sin of the angle a (a / SCALE radians, small), by their series
SmallCos(a) == TRIG - RoundDiv(a * a, 2) + RoundDiv(a * a * a * a, 240000)
SmallSin(a) == 100 * a - RoundDiv(a * a * a, 600)

\* Math.cos and Math.sin of theta = angle + i * 2 * pi / HEPTAGON_SIDES (line 92)
CosTheta(angle, i) ==
    TMul(BaseCos[i + 1], SmallCos(angle)) - TMul(BaseSin[i + 1], SmallSin(angle))
SinTheta(angle, i) ==
    TMul(BaseSin[i + 1], SmallCos(angle)) + TMul(BaseCos[i + 1], SmallSin(angle))

\* the heptagon at a rotation angle (lines 90-97 and 281-289)
Vertices(cx, cy, radius, angle) ==
    [k \in 1..HEPTAGON_SIDES |->
        Vec(cx + TMul(radius, CosTheta(angle, k - 1)),
            cy + TMul(radius, SinTheta(angle, k - 1)))]

----------------------------------------------------------------------------
(* Initialization (lines 60-81) *)

Min(a, b) == IF a < b THEN a ELSE b

\* const heptagonRadius = Math.min(width, height) * 0.4 (line 67)
HeptagonRadius(width, height) == Mul(Min(width, height), 40)

\* one element of the balls array (lines 72-81); color is cosmetic and left out
Ball(i, bx, by, bvx, bvy, r) ==
    [id |-> i, x |-> bx, y |-> by, vx |-> bvx, vy |-> bvy, radius |-> r, mass |-> SCALE]

----------------------------------------------------------------------------
(* Wall collision of one ball against one edge (lines 116-222) *)

\* the wall normal, pointing inward (lines 117-139)
WallNormal(p1, p2, cx, cy) ==
    LET wallVec == sub(p2, p1)
        wallUnit == normalize(wallVec)
        mid == mult(add(p1, p2), 50)
        toCenter == sub(Vec(cx, cy), mid)
        normal == Vec(-wallUnit.y, wallUnit.x)
    IN  IF dot(normal, toCenter) < 0 THEN Vec(-normal.x, -normal.y) ELSE normal

\* distance of the ball from the infinite line of the wall (lines 142-145)
WallDist(ball, p1, normal) == dot(sub(Vec(ball.x, ball.y), p1), normal)

\* the contact test (line 162)
\* (as it would be with <= for <: a tangent ball counts as a contact)
WallContactLoose(dist, radius) == dist <= radius
WallContact(dist, radius) == dist < radius

\* Math.sin and Math.cos of Math.atan2(y, x) (lines 208-209); atan2(0, 0) is 0
SinAtan2(y, x) ==
    LET len == length(Vec(x, y)) IN IF len = 0 THEN 0 ELSE Div(y, len)
CosAtan2(y, x) ==
    LET len == length(Vec(x, y)) IN IF len = 0 THEN SCALE ELSE Div(x, len)

\* the wall velocity vector at the position of the ball (lines 174, 203-210)
WallV(bx, by, cx, cy) ==
    LET rVector == sub(Vec(bx, by), Vec(cx, cy))
        distFromCenter == length(rVector)
        wallSpeed == Mul(Mul(distFromCenter, ROTATION_SPEED), 60 * SCALE)
    IN  Vec(Mul(Mul(-SinAtan2(by - cy, bx - cx), wallSpeed), 20),
            Mul(Mul(CosAtan2(by - cy, bx - cx), wallSpeed), 20))

\* the test that the ball moves towards the wall (line 215)
TowardsWall(vRelDotN) == vRelDotN < 0

\* const j = -(1 + WALL_BOUNCE) * vRelDotN (line 216)
\* (as it would be with the bounce factor forgotten: a fully elastic wall)
WallImpulseElastic(vRelDotN) == Mul(-(SCALE + SCALE), vRelDotN)
WallImpulse(vRelDotN) == Mul(-(SCALE + WALL_BOUNCE), vRelDotN)

\* the velocity reflection (lines 212-221), of a ball already pushed out
WallReflect(ball, normal, wallV) ==
    LET vRel == sub(Vec(ball.vx, ball.vy), wallV)
        vRelDotN == dot(vRel, normal)
    IN  IF TowardsWall(vRelDotN)
        THEN LET j == WallImpulse(vRelDotN)
                 impulse == mult(normal, j)
             IN  [ball EXCEPT !.vx = (vRel.x + impulse.x) + wallV.x,
                              !.vy = (vRel.y + impulse.y) + wallV.y]
        ELSE ball

\* the position correction (lines 166-168)
PushOut(ball, normal, dist) ==
    LET overlap == ball.radius - dist
    IN  [ball EXCEPT !.x = ball.x + Mul(normal.x, overlap),
                     !.y = ball.y + Mul(normal.y, overlap)]

\* the body of the edge loop for edge i (0-based) (lines 117-222)
ResolveWall(ball, verts, i, cx, cy) ==
    LET p1 == verts[i + 1]
        p2 == verts[((i + 1) % HEPTAGON_SIDES) + 1]
        normal == WallNormal(p1, p2, cx, cy)
        dist == WallDist(ball, p1, normal)
    IN  IF WallContact(dist, ball.radius)
        THEN LET pushed == PushOut(ball, normal, dist)
             IN  WallReflect(pushed, normal, WallV(pushed.x, pushed.y, cx, cy))
        ELSE ball

RECURSIVE ResolveWalls(_, _, _, _, _)
\* the edge loop from edge i on (line 116)
ResolveWalls(ball, verts, i, cx, cy) ==
    IF i >= HEPTAGON_SIDES THEN ball
    ELSE ResolveWalls(ResolveWall(ball, verts, i, cx, cy), verts, i + 1, cx, cy)

----------------------------------------------------------------------------
(* Ball to ball collision (lines 227-269) *)

\* the contact test (line 235)
PairContact(d, minDist) == d < minDist

\* the test that skips the velocity exchange (lines 251-254)
MovingAway(vn) == vn > 0

\* const impulseScalar = (-(1 + restitution) * vn) / 2 (line 260)
ImpulseScalar(vn) == Div(Mul(-(SCALE + BALL_RESTITUTION), vn), 2 * SCALE)

\* the velocity of the other ball after the exchange (lines 266-267)
\* (as it would be with += for -=: both balls pushed the same way)
OtherVelocityAdded(other, impulse) ==
    [other EXCEPT !.vx = other.vx + impulse.x, !.vy = other.vy + impulse.y]
OtherVelocity(other, impulse) ==
    [other EXCEPT !.vx = other.vx - impulse.x, !.vy = other.vy - impulse.y]

\* the body of the ball loop for balls[a] as ball and balls[j] as other (lines 228-268)
ResolvePair(bs, a, j) ==
    IF bs[a].id = bs[j].id THEN bs
    ELSE
    LET ball == bs[a]
        other == bs[j]
        distVec == sub(other, ball)
        d == length(distVec)
        minDist == ball.radius + other.radius
    IN  IF PairContact(d, minDist)
        THEN LET overlap == minDist - d
                 n == normalize(distVec)
                 correction == mult(n, Mul(overlap, 50))
                 ball1 == [ball EXCEPT !.x = ball.x - correction.x,
                                       !.y = ball.y - correction.y]
                 other1 == [other EXCEPT !.x = other.x + correction.x,
                                         !.y = other.y + correction.y]
                 vRel == sub(Vec(ball.vx, ball.vy), Vec(other.vx, other.vy))
                 vn == dot(vRel, n)
             IN  IF MovingAway(vn)
                 THEN [bs EXCEPT ![a] = ball1, ![j] = other1]
                 ELSE LET impulse == mult(n, ImpulseScalar(vn))
                      IN  [bs EXCEPT ![a] = [ball1 EXCEPT !.vx = ball.vx + impulse.x,
                                                          !.vy = ball.vy + impulse.y],
                                     ![j] = OtherVelocity(other1, impulse)]
        ELSE bs

RECURSIVE ResolvePairs(_, _, _)
\* the ball loop of balls[a] from index j on (line 227)
ResolvePairs(bs, a, j) ==
    IF j > Len(bs) THEN bs
    ELSE ResolvePairs(ResolvePair(bs, a, j), a, j + 1)

----------------------------------------------------------------------------
(* One forEach callback: forces, move, walls, balls (lines 103-270) *)

\* const dt = 1 / SUB_STEPS (line 100)
Dt == Div(SCALE, SUB_STEPS * SCALE)

\* apply forces and move the ball (lines 105-111)
Integrate(ball) ==
    LET vy1 == ball.vy + Mul(GRAVITY, Dt)
        vx2 == Mul(ball.vx, FRICTION)
        vy2 == Mul(vy1, FRICTION)
    IN  [ball EXCEPT !.vx = vx2, !.vy = vy2,
                     !.x = ball.x + Mul(vx2, Dt),
                     !.y = ball.y + Mul(vy2, Dt)]

\* the callback for balls[a] (lines 103-270)
BallCallback(bs, a, verts, cx, cy) ==
    LET walled == ResolveWalls(Integrate(bs[a]), verts, 0, cx, cy)
    IN  ResolvePairs([bs EXCEPT ![a] = walled], a, 1)

----------------------------------------------------------------------------
(* Bounds of the model *)

MaxFrames == 2          \* animation frames followed

\* window.innerWidth, window.innerHeight (lines 60-61)
Viewports == {<<250 * SCALE, 250 * SCALE>>, <<0, 250 * SCALE>>}

\* draws of Math.random for one ball (lines 74-78): the offsets from the center
\* lie in [-50, 50), the velocities in [-7.5, 7.5), the radius in [12, 20)
RandomBalls ==
    { <<4900, 4900, 700, 700, 1900>>,
      <<3000, 3000, 700, 700, 1900>>,
      <<-4000, -1000, -500, 200, 1200>> }

----------------------------------------------------------------------------
(* The simulation: loop, updatePhysics, draw (lines 51-331) *)

\* the state after the useEffect ran down to the first call of loop (lines 51-81)
Init ==
    \E view \in Viewports, draw \in [1..NUM_BALLS -> RandomBalls] :
        /\ centerX = RoundDiv(view[1], 2)
        /\ centerY = RoundDiv(view[2], 2)
        /\ heptagonRadius = HeptagonRadius(view[1], view[2])
        /\ rotationAngle = 0
        /\ balls = [i \in 1..NUM_BALLS |->
                        Ball(i, RoundDiv(view[1], 2) + draw[i][1],
                                RoundDiv(view[2], 2) + draw[i][2],
                                draw[i][3], draw[i][4], draw[i][5])]
        /\ vertices = <<>>
        /\ step = 0
        /\ bi = 1
        /\ frames = 0
        /\ drawn = <<>>
        /\ moved = {}
        /\ checks = {}
        /\ pre = <<>>
        /\ sel = [a |-> 0, b |-> 0]
        /\ pc = "loop"

\* rotationAngle += ROTATION_SPEED (line 87)
\* (as it would be with the angle advanced once per sub-step)
AdvanceAnglePerSubStep(angle) == angle + ROTATION_SPEED * SUB_STEPS
AdvanceAngle(angle) == angle + ROTATION_SPEED

\* updatePhysics up to the sub-step loop (lines 85-100)
UpdatePhysics ==
    /\ pc = "loop"
    /\ frames < MaxFrames
    /\ rotationAngle' = AdvanceAngle(rotationAngle)
    /\ vertices' = Vertices(centerX, centerY, heptagonRadius, rotationAngle')
    /\ step' = 0
    /\ bi' = 1
    /\ frames' = frames + 1
    /\ moved' = {}
    /\ checks' = {}
    /\ pc' = "substep"
    /\ UNCHANGED <<centerX, centerY, heptagonRadius, balls, drawn, pre, sel>>

\* one forEach callback of a sub-step, and the loop control around it (lines 102-271)
ForEachBall ==
    /\ pc = "substep"
    /\ balls' = BallCallback(balls, bi, vertices, centerX, centerY)
    /\ checks' = { [ball |-> bi, other |-> j, otherMoved |-> (j \in moved)] :
                       j \in { k \in 1..Len(balls) : balls[k].id # balls[bi].id } }
    /\ IF bi < Len(balls)
       THEN /\ bi' = bi + 1
            /\ moved' = moved \cup {bi}
            /\ UNCHANGED <<step, pc>>
       ELSE /\ bi' = 1
            /\ moved' = {}
            /\ step' = step + 1
            /\ pc' = IF step + 1 < SUB_STEPS THEN "substep" ELSE "draw"
    /\ UNCHANGED <<centerX, centerY, heptagonRadius, rotationAngle, vertices,
                   frames, drawn, pre, sel>>

\* draw, then requestAnimationFrame(loop) (lines 274-329)
Draw ==
    /\ pc = "draw"
    /\ drawn' = Vertices(centerX, centerY, heptagonRadius, rotationAngle)
    /\ pc' = "loop"
    /\ UNCHANGED <<centerX, centerY, heptagonRadius, rotationAngle, balls, vertices,
                   step, bi, frames, moved, checks, pre, sel>>

Next == UpdatePhysics \/ ForEachBall \/ Draw

Spec == Init /\ [][Next]_vars

----------------------------------------------------------------------------
(* One ball to ball resolution on its own: the inputs are drawn from bounded *)
(* sets, the action applies lines 228-268 once.                              *)

PairRadii == {10 * SCALE, 15 * SCALE}
PairOffsets == { <<1500, 0>>, <<0, 0>>, <<1200, 1600>>, <<900, 1200>>,
                 <<-1500, 0>>, <<700, 2400>> }
PairVelocities1 == { <<500, 0>>, <<-500, 0>>, <<0, 0>>, <<300, 400>> }
PairVelocities2 == { <<-500, 0>>, <<500, 0>>, <<0, 300>> }
PairSelections == { <<1, 2>>, <<2, 1>>, <<1, 1>> }

\* a ball that takes no part in the resolution, overlapping the ball at the origin
Bystander(i) == Ball(i, 300 * (i - 2), -500, 100, 200, 15 * SCALE)

InitPair ==
    \E r1 \in PairRadii, r2 \in PairRadii, off \in PairOffsets,
       v1 \in PairVelocities1, v2 \in PairVelocities2, s \in PairSelections :
        /\ balls = [i \in 1..NUM_BALLS |->
                        IF i = 1 THEN Ball(1, 0, 0, v1[1], v1[2], r1)
                        ELSE IF i = 2 THEN Ball(2, off[1], off[2], v2[1], v2[2], r2)
                        ELSE Bystander(i)]
        /\ sel = [a |-> s[1], b |-> s[2]]
        /\ pre = <<>>
        /\ centerX = 0
        /\ centerY = 0
        /\ heptagonRadius = 0
        /\ rotationAngle = 0
        /\ vertices = <<>>
        /\ step = 0
        /\ bi = 1
        /\ frames = 0
        /\ drawn = <<>>
        /\ moved = {}
        /\ checks = {}
        /\ pc = "ready"

\* one pass of the ball loop body, for ball = balls[sel.a] and other = balls[sel.b]
PairResolution ==
    /\ pc = "ready"
    /\ pre' = balls
    /\ balls' = ResolvePair(balls, sel.a, sel.b)
    /\ pc' = "done"
    /\ UNCHANGED <<centerX, centerY, heptagonRadius, rotationAngle, vertices,
                   step, bi, frames, drawn, moved, checks, sel>>

NextPair == PairResolution

SpecPair == InitPair /\ [][NextPair]_vars

----------------------------------------------------------------------------
(* One wall resolution on its own: one ball against one edge of the heptagon *)
(* of some frame, the action applies lines 117-222 once.                     *)

WallAngles == {ROTATION_SPEED, 2 * ROTATION_SPEED}
WallOffsets == { <<0, 0>>, <<8000, 0>>, <<0, 8000>>, <<-8000, 0>>, <<0, -8000>>,
                 <<5500, 5500>>, <<0, 7300>> }
WallRadii == {1200, 1860}
WallVelocities == { <<0, 0>>, <<700, 700>>, <<-700, -300>>, <<0, 700>> }

InitWall ==
    \E angle \in WallAngles, e \in 0..(HEPTAGON_SIDES - 1), off \in WallOffsets,
       r \in WallRadii, v \in WallVelocities :
        /\ centerX = 125 * SCALE
        /\ centerY = 125 * SCALE
        /\ heptagonRadius = HeptagonRadius(250 * SCALE, 250 * SCALE)
        /\ rotationAngle = angle
        /\ vertices = Vertices(125 * SCALE, 125 * SCALE,
                               HeptagonRadius(250 * SCALE, 250 * SCALE), angle)
        /\ balls = [i \in 1..NUM_BALLS |->
                        IF i = 1
                        THEN Ball(1, 125 * SCALE + off[1], 125 * SCALE + off[2],
                                  v[1], v[2], r)
                        ELSE Ball(i, 125 * SCALE, 125 * SCALE, 0, 0, 12 * SCALE)]
        /\ sel = [a |-> 1, e |-> e]
        /\ pre = <<>>
        /\ step = 0
        /\ bi = 1
        /\ frames = 0
        /\ drawn = <<>>
        /\ moved = {}
        /\ checks = {}
        /\ pc = "ready"

\* one pass of the edge loop body, for ball = balls[sel.a] and edge sel.e
WallResolution ==
    /\ pc = "ready"
    /\ pre' = balls
    /\ balls' = [balls EXCEPT
                    ![sel.a] = ResolveWall(balls[sel.a], vertices, sel.e, centerX, centerY)]
    /\ pc' = "done"
    /\ UNCHANGED <<centerX, centerY, heptagonRadius, rotationAngle, vertices,
                   step, bi, frames, drawn, moved, checks, sel>>

NextWall == WallResolution

SpecWall == InitWall /\ [][NextWall]_vars

----------------------------------------------------------------------------
(* Properties of one ball to ball resolution (SpecPair) *)

\* what rounding to 1 / SCALE can add up to in one resolution
VelTol == SCALE \div 4
PosTol == SCALE \div 4

PairDone == pc = "done" /\ "b" \in DOMAIN sel /\ sel.a # sel.b
PreBall == pre[sel.a]
PreOther == pre[sel.b]
PreDistVec == sub(PreOther, PreBall)
PreNormal == normalize(PreDistVec)
PreInContact == length(PreDistVec) < PreBall.radius + PreOther.radius

\* the velocity of the first ball relative to the second, along the line of centers
\* from the first to the second: positive when the centers approach
Closing(b1, b2, n) == dot(sub(Vec(b1.vx, b1.vy), Vec(b2.vx, b2.vy)), n)

\* the relative velocity has no component across the line of centers
AlongCenters(b1, b2) ==
    (b1.vx - b2.vx) * (b2.y - b1.y) = (b1.vy - b2.vy) * (b2.x - b1.x)

Velocity(b) == Vec(b.vx, b.vy)
Position(b) == Vec(b.x, b.y)

TheScenario ==
    /\ Position(PreBall) = Vec(0, 0) /\ Position(PreOther) = Vec(15 * SCALE, 0)
    /\ Velocity(PreBall) = Vec(5 * SCALE, 0) /\ Velocity(PreOther) = Vec(-5 * SCALE, 0)
    /\ PreBall.radius = 10 * SCALE /\ PreOther.radius = 10 * SCALE

\* C1: one resolution of two overlapping bodies that approach each other along the
\* line of centers reverses their relative velocity along that line and scales it by
\* 0.8; in the scenario (radius 10, at (0,0) and (15,0), velocities (5,0) and (-5,0))
\* the velocities become (-4,0) and (4,0) and the centers end at distance >= 20.
C1_ApproachingPairBounces ==
    /\ (PairDone /\ PreInContact /\ PreNormal # Vec(0, 0)
            /\ AlongCenters(PreBall, PreOther)
            /\ dot(Velocity(PreBall), PreNormal) > 0
            /\ dot(Velocity(PreOther), PreNormal) < 0)
        => Abs(Closing(balls[sel.a], balls[sel.b], PreNormal)
               + Mul(BALL_RESTITUTION, Closing(PreBall, PreOther, PreNormal))) <= VelTol
    /\ (PairDone /\ TheScenario)
        => /\ Velocity(balls[sel.a]) = Vec(-4 * SCALE, 0)
           /\ Velocity(balls[sel.b]) = Vec(4 * SCALE, 0)
           /\ length(sub(balls[sel.b], balls[sel.a])) >= 20 * SCALE

\* C2: a contact of two bodies whose centers are moving apart leaves both velocities
\* unchanged, and still applies the position correction.
C2_SeparatingPairKeepsVelocities ==
    (PairDone /\ PreInContact /\ Closing(PreBall, PreOther, PreNormal) < 0)
        => /\ Velocity(balls[sel.a]) = Velocity(PreBall)
           /\ Velocity(balls[sel.b]) = Velocity(PreOther)
           /\ Position(balls[sel.a]) # Position(PreBall)
           /\ Position(balls[sel.b]) # Position(PreOther)

\* C3: every resolution keeps the sum of the two velocity vectors, whether or not an
\* impulse is applied, and changes the velocity of no other body.
C3_PairMomentumConserved ==
    (pc = "done" /\ "b" \in DOMAIN sel)
        => /\ add(Velocity(balls[sel.a]), Velocity(balls[sel.b]))
                = add(Velocity(pre[sel.a]), Velocity(pre[sel.b]))
           /\ \A k \in 1..Len(balls) :
                k \notin {sel.a, sel.b} => Velocity(balls[k]) = Velocity(pre[k])

\* C3 witness: a resolution that applied an impulse, next to a body it leaves alone
C3_ImpulseApplied ==
    /\ PairDone
    /\ Velocity(balls[sel.a]) # Velocity(PreBall)
    /\ Velocity(balls[sel.b]) # Velocity(PreOther)
    /\ \E k \in 1..Len(balls) : k \notin {sel.a, sel.b}

\* the signed distance of a ball from edge e of the polygon verts
EdgeDist(ball, verts, e) ==
    WallDist(ball, verts[e + 1],
             WallNormal(verts[e + 1], verts[((e + 1) % HEPTAGON_SIDES) + 1],
                        centerX, centerY))

\* C4: right after the position correction of a detected contact the penetration is
\* gone: the signed distance from the edge is >= the radius (wall contact), the
\* distance of the centers is >= r1 + r2 (body pair, coincident centers included),
\* here up to rounding.
C4_NoPenetrationAfterCorrection ==
    /\ (pc = "done" /\ "e" \in DOMAIN sel
            /\ EdgeDist(pre[sel.a], vertices, sel.e) < pre[sel.a].radius)
        => EdgeDist(balls[sel.a], vertices, sel.e) >= balls[sel.a].radius - PosTol
    /\ (PairDone /\ PreInContact)
        => length(sub(balls[sel.b], balls[sel.a]))
               >= balls[sel.a].radius + balls[sel.b].radius - PosTol

----------------------------------------------------------------------------
(* Properties of one wall resolution (SpecWall) *)

WallDone == pc = "done" /\ "e" \in DOMAIN sel
WallPre == pre[sel.a]
WallPost == balls[sel.a]
TheNormal ==
    WallNormal(vertices[sel.e + 1], vertices[((sel.e + 1) % HEPTAGON_SIDES) + 1],
               centerX, centerY)
TheTangent == Vec(-TheNormal.y, TheNormal.x)
PreDist == WallDist(WallPre, vertices[sel.e + 1], TheNormal)

\* the wall's velocity where the ball is after the position correction
TheWallV == WallV(WallPost.x, WallPost.y, centerX, centerY)
\* the velocity of the ball relative to the wall, before and after the response
RelBefore == sub(Velocity(WallPre), TheWallV)
RelAfter == sub(Velocity(WallPost), TheWallV)

\* rounding: the computed normal is a unit vector to within 1 / SCALE per component,
\* so the normal component of the impulse is exact to about a fiftieth of its size
NormalTol(v) == RoundDiv(Abs(v), 50) + 3

\* C8: a wall contact in which the ball moves into the wall, relative to the wall's
\* own velocity, reverses the normal component of the relative velocity and scales
\* it by WALL_BOUNCE, and leaves its tangential component as it was (up to rounding).
C8_WallReflectsInWallFrame ==
    (WallDone /\ PreDist < WallPre.radius /\ dot(RelBefore, TheNormal) < 0)
        => /\ Abs(dot(RelAfter, TheNormal) + Mul(WALL_BOUNCE, dot(RelBefore, TheNormal)))
                <= NormalTol(dot(RelBefore, TheNormal))
           /\ Abs(dot(RelAfter, TheTangent) - dot(RelBefore, TheTangent)) <= 2

\* C8 witness: a contact with a clearly inward relative velocity was resolved
C8_ReflectionHappened ==
    /\ WallDone
    /\ PreDist < WallPre.radius
    /\ dot(RelBefore, TheNormal) < -(3 * SCALE)
    /\ TheWallV # Vec(0, 0)
    /\ Velocity(WallPost) # Velocity(WallPre)

\* C9: the resolution moves the ball only if its signed distance is below its radius
\* and changes its velocity only if moreover it moves into the wall; a ball exactly
\* tangent is left as it is, and a contacting ball that does not move into the wall
\* is pushed out along the normal and keeps its velocity.
C9_WallFrameEffect ==
    WallDone =>
        /\ Position(WallPost) # Position(WallPre) => PreDist < WallPre.radius
        /\ Velocity(WallPost) # Velocity(WallPre)
                => (PreDist < WallPre.radius /\ dot(RelBefore, TheNormal) < 0)
        /\ PreDist = WallPre.radius => WallPost = WallPre
        /\ (PreDist < WallPre.radius /\ dot(RelBefore, TheNormal) >= 0)
                => /\ Velocity(WallPost) = Velocity(WallPre)
                   /\ Position(WallPost)
                        = add(Position(WallPre), mult(TheNormal, WallPre.radius - PreDist))

\* C9 witness: a ball exactly tangent to the edge, heading for it, was resolved
C9_TangentBallResolved ==
    /\ WallDone
    /\ PreDist = WallPre.radius
    /\ dot(RelBefore, TheNormal) < 0

----------------------------------------------------------------------------
(* Properties of the simulation (Spec) *)

\* all balls were visited in the running sub-step: the sub-step is over
EndOfSubStep == (pc = "substep" /\ bi = 1 /\ step > 0) \/ pc = "draw"

\* C5: at the end of every sub-step no body penetrates any wall: for every body and
\* every edge the signed distance of the center from the edge line is >= the radius
\* (here: up to rounding, and for a polygon of positive radius).
C5_NoWallPenetrationAtEndOfSubStep ==
    (EndOfSubStep /\ heptagonRadius > 0)
        => \A k \in 1..Len(balls), e \in 0..(HEPTAGON_SIDES - 1) :
                EdgeDist(balls[k], vertices, e) >= balls[k].radius - PosTol

\* C6: the angle is advanced once per frame and never inside a sub-step: after N
\* calls of updatePhysics it is N x ROTATION_SPEED, and all sub-steps of a frame and
\* the draw of that frame use the polygon of that one angle.
C6_RotationOncePerFrame ==
    /\ rotationAngle = frames * ROTATION_SPEED
    /\ pc \in {"substep", "draw"}
        => vertices = Vertices(centerX, centerY, heptagonRadius, frames * ROTATION_SPEED)
    /\ (pc = "loop" /\ frames > 0)
        => /\ drawn = Vertices(centerX, centerY, heptagonRadius, frames * ROTATION_SPEED)
           /\ drawn = vertices

\* C6 witness: the second frame was simulated and drawn, the polygon has turned
C6_SecondFrameDrawn ==
    /\ pc = "loop"
    /\ frames >= 2
    /\ heptagonRadius > 0
    /\ drawn = Vertices(centerX, centerY, heptagonRadius, 2 * ROTATION_SPEED)
    /\ drawn # Vertices(centerX, centerY, heptagonRadius, ROTATION_SPEED)

\* C7: a degenerate configuration (polygon radius <= 0, or no body) is rejected at
\* initialization: updatePhysics never runs on it.
C7_DegenerateConfigurationRejected ==
    (heptagonRadius <= 0 \/ Len(balls) = 0) => (frames = 0 /\ pc = "loop")

\* C10: in a sub-step the collision check of a pair of bodies comes only after both
\* bodies had gravity, damping, integration and wall resolution of that sub-step.
C10_PairCheckedAfterBothMoved ==
    \A c \in checks : c.otherMoved

====
